---- MODULE Spec2Model ----
(***************************************************************************)
(* Model of brynhild_deno_plugin/tools/python_sandbox.py: the Tool that    *)
(* supervises one long-lived sandboxed worker process (Deno + Pyodide)     *)
(* behind an asyncio.Lock, speaking a one-line-request / one-line-response *)
(* protocol over the worker's pipes.                                       *)
(*                                                                         *)
(* Callers are coroutines on one event loop.  A coroutine runs without     *)
(* interruption between two awaits, so every action below is the code      *)
(* between two suspension points of Tool.execute / Tool._call_runner and   *)
(* of the two termination routines.  The worker is an untrusted process:   *)
(* its actions (answer, stay silent, write garbage, close a pipe, exit,    *)
(* not read its input, linger after the kill signal) are the environment.  *)
(***************************************************************************)
EXTENDS Integers, Sequences, FiniteSets, TLC

VARIABLES
    locked,          \* asyncio.Lock._locked of Tool._lock
    waiters,         \* asyncio.Lock._waiters: callers suspended in acquire(), FIFO
    proc,            \* Tool._proc: the current worker handle, NoProc for None
    proc_memory_mb,  \* Tool._proc_memory_mb: the current handle's tag, NoMem for None
    workers,         \* every process the Tool has spawned, by spawn order
    nspawned,        \* number of processes spawned so far
    ncalls,          \* number of execute() calls started so far
    pc,              \* per caller: the suspension point its execute() call is at
    call,            \* per caller: the validated locals of its execute() call
    target,          \* per caller: the local `proc` of _call_runner (line 314)
    victim,          \* per caller: the local `proc` of the termination routine
    killRet,         \* per caller: where the running termination routine returns to
    outcome,         \* per caller: how _call_runner is about to leave the lock body
    err,             \* per caller: the local `err` (stderr excerpt) of _call_runner
    result,          \* what the step just taken returns from execute(), if it returns
    hist,            \* observer: the call that released the gate last
    fn               \* the function of execute() applied last, with its arguments
                     \* and its value, where the functions are taken one by one

\* the state of the Tool, its callers and its workers
tool == <<locked, waiters, proc, proc_memory_mb, workers, nspawned, ncalls,
          pc, call, target, victim, killRet, outcome, err, result, hist>>

vars == <<locked, waiters, proc, proc_memory_mb, workers, nspawned, ncalls,
          pc, call, target, victim, killRet, outcome, err, result, hist, fn>>

-----------------------------------------------------------------------------
(* Bounds of the model *)

NumCallers == 2
MaxCalls == 2
MaxWorkers == 2

Callers == 1..NumCallers
WorkerIds == 1..MaxWorkers

-----------------------------------------------------------------------------
(* Program constants *)

NoProc == 0
NoMem == 0
TimeoutLo == 1
TimeoutHi == 600000
MemoryLo == 16
MemoryHi == 4096
DefaultTimeoutMs == 30000
DefaultMemoryMb == 512
MaxStderrBytes == 8192

Max(a, b) == IF a >= b THEN a ELSE b
Min(a, b) == IF a <= b THEN a ELSE b

\* Fault: the lower bound is not applied.
ClampHigh(value, lo, hi) == Min(hi, value)

\* Fault: the upper bound is not applied.
ClampLow(value, lo, hi) == Max(lo, value)

\* _clamp_int: max(lo, min(hi, value))
ClampInt(value, lo, hi) == Max(lo, Min(hi, value))

-----------------------------------------------------------------------------
(* Python values of the input dict: a type tag t, an integer payload n     *)
(* (ints, and 0/1 for bools) and a content class s (strings, containers).  *)

Absent == [t |-> "absent", n |-> 0, s |-> ""]
NoneV == [t |-> "none", n |-> 0, s |-> ""]
IntV(i) == [t |-> "int", n |-> i, s |-> ""]
BoolV(b) == [t |-> "bool", n |-> IF b THEN 1 ELSE 0, s |-> ""]
StrV(x) == [t |-> "str", n |-> 0, s |-> x]
ListV(x) == [t |-> "list", n |-> 0, s |-> x]
DictV(x) == [t |-> "dict", n |-> 0, s |-> x]

\* dict.get(key, default)
Get(v, default) == IF v.t = "absent" THEN default ELSE v

\* isinstance(v, int): bool is a subclass of int
IsInt(v) == v.t \in {"int", "bool"}

\* bool(v)
Truthy(v) ==
    CASE v.t \in {"absent", "none"} -> FALSE
      [] v.t \in {"int", "bool"} -> v.n # 0
      [] v.t = "str" -> v.s # ""
      [] OTHER -> v.s # "empty"

\* v or default
OrElse(v, default) == IF Truthy(v) THEN v ELSE default

\* execute, lines 162-195: "" when the input passes, else the error text
Validate(in) ==
    LET timeout_ms == Get(in.timeout_ms, IntV(DefaultTimeoutMs))
        memory_mb == Get(in.memory_mb, IntV(DefaultMemoryMb))
        fmt == Get(in.format, StrV("text"))
        files == OrElse(in.files, DictV("empty"))
        packages == OrElse(in.packages, ListV("empty"))
        pythonpath == OrElse(in.pythonpath, ListV("empty"))
    IN  CASE in.code.t # "str" \/ in.code.s \in {"", "blank"} ->
               "code is required and must be a non-empty string"
          [] ~IsInt(timeout_ms) -> "timeout_ms must be an integer"
          [] ~IsInt(memory_mb) -> "memory_mb must be an integer"
          [] ~(fmt.t = "str" /\ fmt.s \in {"text", "json"}) ->
               "format must be 'text' or 'json'"
          [] files.t # "dict" -> "files must be an object (mapping path -> content)"
          [] files.s = "nonstr" -> "files must map string paths to string contents"
          [] packages.t # "list" \/ packages.s = "nonstr" ->
               "packages must be an array of strings"
          [] pythonpath.t # "list" \/ pythonpath.s = "nonstr" ->
               "pythonpath must be an array of strings"
          [] OTHER -> ""

\* execute, lines 166-202: the locals of a call whose input passed
Locals(in) ==
    [timeout_ms |-> ClampInt(Get(in.timeout_ms, IntV(DefaultTimeoutMs)).n, TimeoutLo, TimeoutHi),
     memory_mb |-> ClampInt(Get(in.memory_mb, IntV(DefaultMemoryMb)).n, MemoryLo, MemoryHi),
     reset |-> Truthy(Get(in.reset, BoolV(FALSE))),
     fmt |-> Get(in.format, StrV("text")).s,
     big |-> in.code.s = "huge",
     over |-> OrElse(in.files, DictV("empty")).s = "over"]

NullCall == [timeout_ms |-> 0, memory_mb |-> 0, reset |-> FALSE,
             fmt |-> "", big |-> FALSE, over |-> FALSE]

BaseInput ==
    [code |-> StrV("text"), timeout_ms |-> Absent, memory_mb |-> Absent,
     reset |-> Absent, format |-> Absent, files |-> Absent,
     packages |-> Absent, pythonpath |-> Absent]

\* The inputs the callers submit: code "huge" is a request line larger than
\* what the worker's input pipe and the transport buffer take unread; files
\* "over" is a map of 101 short entries, one more than the entry-count limit.
Inputs ==
    {BaseInput,
     [BaseInput EXCEPT !.reset = BoolV(TRUE), !.timeout_ms = IntV(TimeoutHi + 1)],
     [BaseInput EXCEPT !.memory_mb = IntV(8), !.timeout_ms = IntV(0)],
     [BaseInput EXCEPT !.memory_mb = IntV(16), !.timeout_ms = IntV(0)],
     [BaseInput EXCEPT !.memory_mb = IntV(4), !.timeout_ms = IntV(0)],
     [BaseInput EXCEPT !.memory_mb = IntV(DefaultMemoryMb)],
     [BaseInput EXCEPT !.code = StrV("huge")],
     [BaseInput EXCEPT !.code = StrV("blank")],
     [BaseInput EXCEPT !.files = DictV("over")],
     [BaseInput EXCEPT !.memory_mb = StrV("text"), !.reset = BoolV(TRUE)]}


-----------------------------------------------------------------------------
(* The worker processes *)

\* A response line the worker may put on its output: a JSON object with ok=true,
\* one with ok=false and an error text, one with ok=false and no error text,
\* valid JSON that is not an object, and a line that is not JSON.
LineKinds == {"ok", "fail", "fail_noerr", "nondict", "garbage"}

\* Bytes a worker may have put on its error stream when the supervisor reads it.
StderrSizes == {0, 9000}

\* A slot of `workers` no process was spawned into yet.
NoWorker ==
    [spawned |-> FALSE, fresh |-> FALSE, mem |-> NoMem, alive |-> FALSE,
     stdinOpen |-> FALSE, stdoutOpen |-> FALSE, out |-> "", stalled |-> FALSE,
     written |-> 0, read |-> 0, marker |-> FALSE, supClosed |-> FALSE,
     signalled |-> FALSE, torn |-> "none"]

\* _spawn_proc_locked, lines 369-384: a new process with three pipes and the heap
\* cap memory_mb; `fresh` holds while the call that spawned it is under way.
NewWorker(memory_mb) ==
    [NoWorker EXCEPT !.spawned = TRUE, !.fresh = TRUE, !.mem = memory_mb,
                     !.alive = TRUE, !.stdinOpen = TRUE, !.stdoutOpen = TRUE]

\* proc.stdin.is_closing() is false: neither side has closed the input pipe
StdinUsable(w) == workers[w].stdinOpen /\ ~workers[w].supClosed

\* The termination routine returns and with it the last reference to the
\* process object goes: its pipe transports are closed, and what they held and
\* carried is gone with them.  What stays is that the process was spawned, how
\* it was terminated, and whether it was signalled and has exited.
Dropped(r) ==
    [NoWorker EXCEPT !.spawned = TRUE, !.fresh = r.fresh, !.torn = r.torn,
                     !.signalled = r.signalled, !.alive = r.alive]

\* Fault: the kill signal is not sent.
SignalSkipped(w) == workers[w].signalled

\* proc.kill(): signals a process whose returncode is None
Signalled(w) == workers[w].signalled \/ workers[w].alive

-----------------------------------------------------------------------------
(* Results *)

NoErr == [kind |-> "", len |-> 0]

NoResult ==
    [raised |-> FALSE, success |-> FALSE, kind |-> "", error |-> "",
     timeout_ms |-> 0, excerpt |-> NoErr]

Failure(kind, error) ==
    [NoResult EXCEPT !.kind = kind, !.error = error]

\* Fault: the error stream is read to its end, without the size bound.
ReadStderrAll(w, n) ==
    IF n > 0 THEN [kind |-> "data", len |-> n]
    ELSE IF workers[w].alive THEN [kind |-> "timedout", len |-> 0]
    ELSE [kind |-> "empty", len |-> 0]

\* _read_stderr_bounded, lines 386-396: at most max_bytes of what is there; the
\* marker when nothing arrives in 0.5 s on a stream that is still open; "" at
\* end-of-stream.
ReadStderrBounded(w, n) ==
    IF n > 0 THEN [kind |-> "data", len |-> Min(n, MaxStderrBytes)]
    ELSE IF workers[w].alive THEN [kind |-> "timedout", len |-> 0]
    ELSE [kind |-> "empty", len |-> 0]

\* Fault: the error of a response with ok=false is passed on as it came, also
\* when the response has none.
FailureTextAsIs(line) == IF line = "fail" THEN "interpreter error text" ELSE ""

\* lines 254 and 273, error or "Python execution failed", for a response line
\* with ok=false: its error text, or the default when it has none
FailureText(line) ==
    IF line = "fail" THEN "interpreter error text" ELSE "Python execution failed"

\* execute, lines 204-274: what the caller gets for each way _call_runner ends
ResultOf(c) ==
    CASE outcome[c] = "ok" ->
           [NoResult EXCEPT !.success = TRUE, !.kind = "none"]
      [] outcome[c] \in {"fail", "fail_noerr"} ->
           Failure("sandbox", FailureText(outcome[c]))
      [] outcome[c] = "nondict" ->
           [NoResult EXCEPT !.raised = TRUE, !.kind = "AttributeError"]
      [] outcome[c] = "timeout" ->
           [Failure("timeout", "Execution timed out") EXCEPT
               !.timeout_ms = call[c].timeout_ms]
      [] outcome[c] = "died" ->
           [Failure("died", "Deno runner exited unexpectedly") EXCEPT
               !.excerpt = err[c]]
      [] outcome[c] = "protocol" ->
           [Failure("protocol", "Runner returned non-JSON output") EXCEPT
               !.excerpt = err[c]]
      [] OTHER -> Failure("oserror", "OSError")

\* no function applied
NoFn == [op |-> "none"]

-----------------------------------------------------------------------------
(* Initial state: Tool.__init__, lines 47-50 *)

Init ==
    /\ locked = FALSE
    /\ waiters = <<>>
    /\ proc = NoProc
    /\ proc_memory_mb = NoMem
    /\ workers = [w \in WorkerIds |-> NoWorker]
    /\ nspawned = 0
    /\ ncalls = 0
    /\ pc = [c \in Callers |-> "idle"]
    /\ call = [c \in Callers |-> NullCall]
    /\ target = [c \in Callers |-> NoProc]
    /\ victim = [c \in Callers |-> NoProc]
    /\ killRet = [c \in Callers |-> ""]
    /\ outcome = [c \in Callers |-> ""]
    /\ err = [c \in Callers |-> NoErr]
    /\ result = NoResult
    /\ hist = [outcome |-> "none", proc |-> NoProc]
    /\ fn = NoFn

-----------------------------------------------------------------------------
(* The gate: asyncio.Lock *)

\* Fault: a gate that admits every caller at once.
AcquireAlways == TRUE

\* Lock.acquire takes the lock at once when it is free and nobody waits
CanAcquire == ~locked /\ waiters = <<>>

\* the suspension points between `async with self._lock` and its exit
GatePcs == {"locked", "check", "kdrain", "kwait", "spawn", "drain", "read",
            "perr", "eerr", "fwait", "exit"}

InGate(c) == pc[c] \in GatePcs

-----------------------------------------------------------------------------
(* execute: validation, launch check, gate *)

\* Fault: a rejected request drops the current handle, as a reset would.
RejectDropsHandle(c) ==
    /\ proc' = NoProc
    /\ proc_memory_mb' = NoMem
    /\ UNCHANGED <<locked, waiters, workers, nspawned, pc, call, target,
                   victim, killRet, outcome, err, hist>>

\* execute, lines 163-195: a return before _call_runner is called
RejectInput(c) ==
    UNCHANGED <<locked, waiters, proc, proc_memory_mb, workers, nspawned, pc,
                call, target, victim, killRet, outcome, err, hist>>

\* Fault: the launch check is made with the gate taken, which is then not
\* released when the check fails.
RaiseUnderGate(c) ==
    /\ locked' = TRUE
    /\ UNCHANGED <<waiters, proc, proc_memory_mb, workers, nspawned, pc, call,
                   target, victim, killRet, outcome, err, hist>>

\* _call_runner, lines 290-302: FileNotFoundError raised before the gate
RaiseNotFound(c) ==
    UNCHANGED <<locked, waiters, proc, proc_memory_mb, workers, nspawned, pc,
                call, target, victim, killRet, outcome, err, hist>>

\* execute lines 161-202 and _call_runner lines 290-304, up to the first await
Submit(c, in, launchOk) ==
    /\ pc[c] = "idle"
    /\ ncalls < MaxCalls
    /\ ncalls' = ncalls + 1
    /\ IF Validate(in) # ""
         THEN /\ result' = Failure("validation", Validate(in))
              /\ RejectInput(c)
       ELSE IF ~launchOk
         THEN /\ result' = Failure("launch", "not found")
              /\ RaiseNotFound(c)
       ELSE /\ result' = NoResult
            /\ call' = [call EXCEPT ![c] = Locals(in)]
            /\ IF CanAcquire
                 THEN /\ locked' = TRUE
                      /\ pc' = [pc EXCEPT ![c] = "locked"]
                      /\ UNCHANGED waiters
                 ELSE /\ waiters' = Append(waiters, c)
                      /\ pc' = [pc EXCEPT ![c] = "waiting"]
                      /\ UNCHANGED locked
            /\ UNCHANGED <<proc, proc_memory_mb, workers, nspawned, target,
                           victim, killRet, outcome, err, hist>>
    /\ UNCHANGED fn

\* Lock.acquire resumes in the first waiter once release() has woken it
Resume(c) ==
    /\ pc[c] = "waiting"
    /\ ~locked
    /\ waiters # <<>>
    /\ Head(waiters) = c
    /\ locked' = TRUE
    /\ waiters' = Tail(waiters)
    /\ pc' = [pc EXCEPT ![c] = "locked"]
    /\ UNCHANGED <<proc, proc_memory_mb, workers, nspawned, ncalls, call, target,
                   victim, killRet, outcome, err, hist>>
    /\ result' = NoResult
    /\ UNCHANGED fn

-----------------------------------------------------------------------------
(* The two termination routines *)

\* Fault: the graceful routine clears the handle and leaves its tag.
TagKept == [proc |-> NoProc, mem |-> proc_memory_mb]

\* _kill_proc_locked, lines 431-432: self._proc = None, self._proc_memory_mb = None
KillHandle == [proc |-> NoProc, mem |-> NoMem]

\* Fault: a forced termination that leaves the handle and its tag in place.
HandleKept == [proc |-> proc, mem |-> proc_memory_mb]

\* _force_kill_proc_locked, lines 407-408
ForceKillHandle == [proc |-> NoProc, mem |-> NoMem]

\* Fault: the timeout path negotiates like the graceful routine: it writes the
\* shutdown marker and closes the input stream before it signals.
KillPolitely(w) ==
    [workers[w] EXCEPT !.marker = StdinUsable(w), !.supClosed = TRUE,
                       !.signalled = Signalled(w), !.torn = "graceful"]

\* _force_kill_proc_locked, lines 410-416: proc.kill() at once; the input
\* stream of the process is not touched
ForceKill(w) ==
    [workers[w] EXCEPT !.signalled = Signalled(w), !.torn = "forced"]

\* The routine's local `proc` goes out of scope when it returns: unless
\* self._proc still refers to the process, the process object is dropped.
Forget(w) == IF proc = w THEN workers[w] ELSE Dropped(workers[w])

\* _kill_proc_locked, lines 428-440, up to its first await, called by caller c
\* who continues at ret.  With no handle it returns at once.  Otherwise it
\* clears the handle and writes the shutdown marker, unless the input stream is
\* already closing: then it goes on to the kill (lines 452-459).
KillBegin(c, ret) ==
    IF proc = NoProc
      THEN /\ pc' = [pc EXCEPT ![c] = ret]
           /\ UNCHANGED <<proc, proc_memory_mb, workers, victim, killRet>>
      ELSE /\ proc' = KillHandle.proc
           /\ proc_memory_mb' = KillHandle.mem
           /\ victim' = [victim EXCEPT ![c] = proc]
           /\ killRet' = [killRet EXCEPT ![c] = ret]
           /\ IF StdinUsable(proc)
                THEN /\ workers' = [workers EXCEPT ![proc].marker = TRUE,
                                                   ![proc].torn = "graceful"]
                     /\ pc' = [pc EXCEPT ![c] = "kdrain"]
                ELSE /\ workers' = [workers EXCEPT ![proc].signalled = Signalled(proc),
                                                   ![proc].torn = "graceful"]
                     /\ pc' = [pc EXCEPT ![c] = "kwait"]

\* _kill_proc_locked, lines 440-459: the drain of the marker has completed,
\* failed or timed out after 0.5 s; close the input stream, then kill the
\* process if it has not exited.
KillDrain(c) ==
    /\ pc[c] = "kdrain"
    /\ workers' = [workers EXCEPT ![victim[c]].supClosed = TRUE,
                                  ![victim[c]].signalled = Signalled(victim[c])]
    /\ pc' = [pc EXCEPT ![c] = "kwait"]
    /\ UNCHANGED <<locked, waiters, proc, proc_memory_mb, nspawned, ncalls, call,
                   target, victim, killRet, outcome, err, hist>>
    /\ result' = NoResult
    /\ UNCHANGED fn

\* _kill_proc_locked, lines 458-461: proc.wait() has returned or 1.0 s have
\* passed; the routine returns to its caller either way.
KillWait(c) ==
    /\ pc[c] = "kwait"
    /\ pc' = [pc EXCEPT ![c] = killRet[c]]
    /\ workers' = [workers EXCEPT ![victim[c]] = Forget(victim[c])]
    /\ victim' = [victim EXCEPT ![c] = NoProc]
    /\ killRet' = [killRet EXCEPT ![c] = ""]
    /\ UNCHANGED <<locked, waiters, proc, proc_memory_mb, nspawned, ncalls,
                   call, target, outcome, err, hist>>
    /\ result' = NoResult
    /\ UNCHANGED fn

\* _force_kill_proc_locked, lines 419-424: proc.wait() has returned or 1.0 s
\* have passed; _call_runner re-raises the timeout (line 329).
ForceWait(c) ==
    /\ pc[c] = "fwait"
    /\ pc' = [pc EXCEPT ![c] = "exit"]
    /\ outcome' = [outcome EXCEPT ![c] = "timeout"]
    /\ workers' = [workers EXCEPT ![victim[c]] = Forget(victim[c])]
    /\ victim' = [victim EXCEPT ![c] = NoProc]
    /\ UNCHANGED <<locked, waiters, proc, proc_memory_mb, nspawned, ncalls,
                   call, target, killRet, err, hist>>
    /\ result' = NoResult
    /\ UNCHANGED fn

-----------------------------------------------------------------------------
(* _call_runner under the gate *)

\* Fault: the reset flag is ignored.
NeverReset(c) == FALSE

\* line 305
MustReset(c) == call[c].reset

\* Fault: every call replaces the worker.
AlwaysRespawn(memory_mb) == TRUE

\* Fault: the reuse check does not compare the memory tag.
IgnoreTag(memory_mb) == proc = NoProc \/ ~workers[proc].alive

\* line 308: no handle, or the process has exited, or its tag differs
NeedRespawn(memory_mb) ==
    \/ proc = NoProc
    \/ ~workers[proc].alive
    \/ proc_memory_mb # memory_mb

\* lines 317-319, proc.stdin.write(line) on worker record r: a closing transport
\* drops the line; a line larger than the pipe takes stays partly unwritten until
\* the worker reads; any other line is in the pipe at once.
WriteLine(r, usable, big) ==
    IF ~usable THEN r
    ELSE IF big THEN [r EXCEPT !.stalled = TRUE]
    ELSE [r EXCEPT !.written = @ + 1]

\* line 320, await proc.stdin.drain(): returns without suspending when the
\* line is in the pipe, so that the call goes on to the read (line 325)
AfterWrite(usable, big) == IF usable /\ ~big THEN "read" ELSE "drain"

\* lines 305-306
EnterGate(c) ==
    /\ pc[c] = "locked"
    /\ IF MustReset(c)
         THEN KillBegin(c, "check")
         ELSE /\ pc' = [pc EXCEPT ![c] = "check"]
              /\ UNCHANGED <<proc, proc_memory_mb, workers, victim, killRet>>
    /\ UNCHANGED <<locked, waiters, nspawned, ncalls, call, target, outcome, err, hist>>
    /\ result' = NoResult
    /\ UNCHANGED fn

\* lines 308-320: the reuse check; a worker that passes it is written to in
\* the same step.
CheckReuse(c) ==
    /\ pc[c] = "check"
    /\ IF NeedRespawn(call[c].memory_mb)
         THEN /\ KillBegin(c, "spawn")
              /\ UNCHANGED target
         ELSE /\ target' = [target EXCEPT ![c] = proc]
              /\ workers' = [workers EXCEPT
                    ![proc] = WriteLine(@, StdinUsable(proc), call[c].big)]
              /\ pc' = [pc EXCEPT ![c] = AfterWrite(StdinUsable(proc), call[c].big)]
              /\ UNCHANGED <<proc, proc_memory_mb, victim, killRet>>
    /\ UNCHANGED <<locked, waiters, nspawned, ncalls, call, outcome, err, hist>>
    /\ result' = NoResult
    /\ UNCHANGED fn

\* lines 310-320: create_subprocess_exec has returned a process, which becomes
\* the handle, tagged, and is written to
SpawnOk(c) ==
    /\ pc[c] = "spawn"
    /\ nspawned < MaxWorkers
    /\ LET w == nspawned + 1
       IN  /\ nspawned' = w
           /\ proc' = w
           /\ proc_memory_mb' = call[c].memory_mb
           /\ target' = [target EXCEPT ![c] = w]
           /\ workers' = [workers EXCEPT
                 ![w] = WriteLine(NewWorker(call[c].memory_mb),
                                  TRUE, call[c].big)]
           /\ pc' = [pc EXCEPT ![c] = AfterWrite(TRUE, call[c].big)]
    /\ UNCHANGED <<locked, waiters, ncalls, call, victim, killRet, outcome, err, hist>>
    /\ result' = NoResult
    /\ UNCHANGED fn

\* line 310: create_subprocess_exec has raised OSError
SpawnFail(c) ==
    /\ pc[c] = "spawn"
    /\ pc' = [pc EXCEPT ![c] = "exit"]
    /\ outcome' = [outcome EXCEPT ![c] = "spawnfail"]
    /\ UNCHANGED <<locked, waiters, proc, proc_memory_mb, workers, nspawned, ncalls,
                   call, target, victim, killRet, err, hist>>
    /\ result' = NoResult
    /\ UNCHANGED fn

\* line 320: the suspended drain() resumes: the worker has taken the line, or
\* the transport has closed and drain() raises ConnectionResetError.  While the
\* worker neither reads nor closes, it does not resume.
Drain(c) ==
    /\ pc[c] = "drain"
    /\ LET w == target[c]
       IN  IF ~StdinUsable(w)
             THEN /\ pc' = [pc EXCEPT ![c] = "exit"]
                  /\ outcome' = [outcome EXCEPT ![c] = "writefail"]
             ELSE /\ ~workers[w].stalled
                  /\ pc' = [pc EXCEPT ![c] = "read"]
                  /\ UNCHANGED outcome
    /\ UNCHANGED <<locked, waiters, proc, proc_memory_mb, workers, nspawned, ncalls,
                   call, target, victim, killRet, err, hist>>
    /\ result' = NoResult
    /\ UNCHANGED fn

\* Fault: a response with ok=false is taken for a failed exchange.
ParseStrict(line) ==
    IF line \in {"garbage", "fail", "fail_noerr"} THEN "protocol" ELSE line

\* lines 337-343: json.loads of the line
ParseLine(line) == IF line = "garbage" THEN "protocol" ELSE line

\* lines 325-343: the bounded readline() has ended: with a line, with
\* end-of-stream, or with the timeout.
ReadLine(c) ==
    /\ pc[c] = "read"
    /\ LET w == target[c]
       IN  IF workers[w].out # ""
             THEN \* a line: parse it; a dict (or any JSON) is returned
                  /\ workers' = [workers EXCEPT ![w].out = "", ![w].read = @ + 1]
                  /\ IF ParseLine(workers[w].out) = "protocol"
                       THEN /\ pc' = [pc EXCEPT ![c] = "perr"]
                            /\ UNCHANGED outcome
                       ELSE /\ pc' = [pc EXCEPT ![c] = "exit"]
                            /\ outcome' = [outcome EXCEPT
                                  ![c] = ParseLine(workers[w].out)]
                  /\ UNCHANGED <<proc, proc_memory_mb, victim>>
           ELSE IF ~workers[w].stdoutOpen
             THEN \* b"": go on to read the error stream (line 333)
                  /\ pc' = [pc EXCEPT ![c] = "eerr"]
                  /\ UNCHANGED <<workers, outcome, proc, proc_memory_mb, victim>>
           ELSE \* TimeoutError: _force_kill_proc_locked up to its await
                /\ proc' = ForceKillHandle.proc
                /\ proc_memory_mb' = ForceKillHandle.mem
                /\ victim' = [victim EXCEPT ![c] = proc]
                /\ workers' = [workers EXCEPT ![proc] = ForceKill(proc)]
                /\ pc' = [pc EXCEPT ![c] = "fwait"]
                /\ UNCHANGED outcome
    /\ UNCHANGED <<locked, waiters, nspawned, ncalls, call, target, killRet, err, hist>>
    /\ result' = NoResult
    /\ UNCHANGED fn

\* lines 342-343: the bounded read of the error stream has ended; RuntimeError
ProtoStderr(c, n) ==
    /\ pc[c] = "perr"
    /\ err' = [err EXCEPT ![c] = ReadStderrBounded(target[c], n)]
    /\ pc' = [pc EXCEPT ![c] = "exit"]
    /\ outcome' = [outcome EXCEPT ![c] = "protocol"]
    /\ UNCHANGED <<locked, waiters, proc, proc_memory_mb, workers, nspawned, ncalls,
                   call, target, victim, killRet, hist>>
    /\ result' = NoResult
    /\ UNCHANGED fn

\* lines 333-335: the bounded read of the error stream has ended; then
\* _kill_proc_locked, then RuntimeError
EofStderr(c, n) ==
    /\ pc[c] = "eerr"
    /\ err' = [err EXCEPT ![c] = ReadStderrBounded(target[c], n)]
    /\ outcome' = [outcome EXCEPT ![c] = "died"]
    /\ KillBegin(c, "exit")
    /\ UNCHANGED <<locked, waiters, nspawned, ncalls, call, target, hist>>
    /\ result' = NoResult
    /\ UNCHANGED fn

\* leaving `async with self._lock` (Lock.release) and the rest of execute,
\* lines 211-274, which has no await
Release(c) ==
    /\ pc[c] = "exit"
    /\ locked' = FALSE
    /\ result' = ResultOf(c)
    /\ hist' = [outcome |-> outcome[c], proc |-> target[c]]
    /\ pc' = [pc EXCEPT ![c] = "idle"]
    /\ call' = [call EXCEPT ![c] = NullCall]
    /\ target' = [target EXCEPT ![c] = NoProc]
    /\ outcome' = [outcome EXCEPT ![c] = ""]
    /\ err' = [err EXCEPT ![c] = NoErr]
    /\ workers' = [w \in WorkerIds |-> [workers[w] EXCEPT !.fresh = FALSE]]
    /\ UNCHANGED <<waiters, proc, proc_memory_mb, nspawned, ncalls, victim, killRet, fn>>

-----------------------------------------------------------------------------
(* The worker: an untrusted process *)

\* A process the supervisor has not begun to terminate.  What a process does
\* with its pipes after that, the supervisor never looks at: it reads only the
\* returncode (line 453).
Active(w) ==
    workers[w].alive /\ ~workers[w].signalled /\ workers[w].torn = "none"

\* the worker answers the request it was given with one line
WorkerRespond(w, line) ==
    /\ Active(w)
    /\ workers[w].stdoutOpen
    /\ workers[w].out = ""
    /\ workers[w].written > workers[w].read
    /\ workers' = [workers EXCEPT ![w].out = line]
    /\ UNCHANGED <<locked, waiters, proc, proc_memory_mb, nspawned, ncalls, pc, call,
                   target, victim, killRet, outcome, err, hist>>
    /\ result' = NoResult
    /\ UNCHANGED fn

\* the worker reads its input: a line that did not fit the pipe is now written
WorkerConsume(w) ==
    /\ Active(w)
    /\ workers[w].stdinOpen
    /\ workers[w].stalled
    /\ workers' = [workers EXCEPT ![w].stalled = FALSE, ![w].written = @ + 1]
    /\ UNCHANGED <<locked, waiters, proc, proc_memory_mb, nspawned, ncalls, pc, call,
                   target, victim, killRet, outcome, err, hist>>
    /\ result' = NoResult
    /\ UNCHANGED fn

\* the worker closes its input without exiting
WorkerCloseStdin(w) ==
    /\ Active(w)
    /\ workers[w].stdinOpen
    /\ workers' = [workers EXCEPT ![w].stdinOpen = FALSE]
    /\ UNCHANGED <<locked, waiters, proc, proc_memory_mb, nspawned, ncalls, pc, call,
                   target, victim, killRet, outcome, err, hist>>
    /\ result' = NoResult
    /\ UNCHANGED fn

\* the worker closes its output without exiting
WorkerCloseStdout(w) ==
    /\ Active(w)
    /\ workers[w].stdoutOpen
    /\ workers' = [workers EXCEPT ![w].stdoutOpen = FALSE]
    /\ UNCHANGED <<locked, waiters, proc, proc_memory_mb, nspawned, ncalls, pc, call,
                   target, victim, killRet, outcome, err, hist>>
    /\ result' = NoResult
    /\ UNCHANGED fn

\* the process exits (by itself, on the shutdown marker, or killed): its pipes
\* close and its returncode is set.  A killed process need not take this step,
\* and once the termination routine has returned nothing observes it.
WorkerExit(w) ==
    /\ workers[w].alive
    /\ Active(w) \/ \E c \in Callers : victim[c] = w
    /\ workers' = [workers EXCEPT ![w].alive = FALSE, ![w].stdinOpen = FALSE,
                                  ![w].stdoutOpen = FALSE]
    /\ UNCHANGED <<locked, waiters, proc, proc_memory_mb, nspawned, ncalls, pc, call,
                   target, victim, killRet, outcome, err, hist>>
    /\ result' = NoResult
    /\ UNCHANGED fn

-----------------------------------------------------------------------------
(* Specifications *)

\* one step of caller c's call once it is submitted
Step(c) ==
    \/ Resume(c)
    \/ EnterGate(c)
    \/ CheckReuse(c)
    \/ KillDrain(c)
    \/ KillWait(c)
    \/ SpawnOk(c)
    \/ SpawnFail(c)
    \/ Drain(c)
    \/ ReadLine(c)
    \/ \E n \in StderrSizes : ProtoStderr(c, n)
    \/ \E n \in StderrSizes : EofStderr(c, n)
    \/ ForceWait(c)
    \/ Release(c)

Next ==
    \/ \E c \in Callers, in \in Inputs, launchOk \in BOOLEAN : Submit(c, in, launchOk)
    \/ \E c \in Callers : Resume(c)
    \/ \E c \in Callers : EnterGate(c)
    \/ \E c \in Callers : CheckReuse(c)
    \/ \E c \in Callers : KillDrain(c)
    \/ \E c \in Callers : KillWait(c)
    \/ \E c \in Callers : SpawnOk(c)
    \/ \E c \in Callers : SpawnFail(c)
    \/ \E c \in Callers : Drain(c)
    \/ \E c \in Callers : ReadLine(c)
    \/ \E c \in Callers, n \in StderrSizes : ProtoStderr(c, n)
    \/ \E c \in Callers, n \in StderrSizes : EofStderr(c, n)
    \/ \E c \in Callers : ForceWait(c)
    \/ \E c \in Callers : Release(c)
    \/ \E w \in WorkerIds, line \in LineKinds : WorkerRespond(w, line)
    \/ \E w \in WorkerIds : WorkerConsume(w)
    \/ \E w \in WorkerIds : WorkerCloseStdin(w)
    \/ \E w \in WorkerIds : WorkerCloseStdout(w)
    \/ \E w \in WorkerIds : WorkerExit(w)

Spec == Init /\ [][Next]_vars

\* The event loop runs every coroutine that can run, and every bounded wait
\* ends; the worker and the callers' decision to submit are under no obligation.
FairSpec == Spec /\ \A c \in Callers : WF_vars(Step(c))

-----------------------------------------------------------------------------
(* The functions of execute, taken one by one: the validation and clamping   *)
(* of the input (lines 162-195) and the shaping of the worker's response     *)
(* (lines 230-274), each applied once to arguments drawn from a bounded set. *)

\* longest text a worker's response carries
MaxLen == 3

\* integers around the bounds of both ranges and the two defaults
IntSamples ==
    {-1, 0, 1, 2, 15, 16, 17, 512, 4095, 4096, 4097, 30000,
     599999, 600000, 600001}

\* values a caller may put under a key of the input dict
FieldValues ==
    {Absent, NoneV, BoolV(TRUE), BoolV(FALSE)}
      \cup {IntV(i) : i \in IntSamples}
      \cup {StrV(x) : x \in {"", "blank", "text", "json"}}
      \cup {ListV(x) : x \in {"empty", "str", "nonstr"}}
      \cup {DictV(x) : x \in {"empty", "str", "nonstr"}}

\* the keys execute reads
Fields == DOMAIN BaseInput

\* input_schema, lines 77-141: the declared type of each key
SchemaType ==
    [code |-> "str", files |-> "dict", packages |-> "list",
     pythonpath |-> "list", timeout_ms |-> "int", memory_mb |-> "int",
     reset |-> "bool", format |-> "str"]

\* inputs that differ from a valid one under one key
FnInputs == {[BaseInput EXCEPT ![f] = v] : f \in Fields, v \in FieldValues}

\* execute, lines 162-202, applied to one input: the validation error, or
\* the locals the call goes on with
CheckInput(in) ==
    /\ fn = NoFn
    /\ fn' = [op |-> "check", input |-> in, error |-> Validate(in),
              locals |-> IF Validate(in) = "" THEN Locals(in) ELSE NullCall]
    /\ UNCHANGED tool

\* JSON values of the worker's response: a type tag and the value, texts being
\* sequences of characters
JAbsent == [t |-> "absent", v |-> <<>>]
JNull == [t |-> "null", v |-> <<>>]
JBool(b) == [t |-> "bool", v |-> b]
JNum(n) == [t |-> "num", v |-> n]
JText(x) == [t |-> "str", v |-> x]

\* the characters of a literal
Chars(str) == [i \in 1..Len(str) |-> SubSeq(str, i, i)]

\* bool(v) of a JSON value
JTruthy(v) ==
    CASE v.t \in {"absent", "null"} -> FALSE
      [] v.t = "bool" -> v.v
      [] v.t = "num" -> v.v # 0
      [] OTHER -> v.v # <<>>

\* resp.get(key): None when the key is absent
JGet(v) == IF v.t = "absent" THEN JNull ELSE v

\* v or default
JOr(v, default) == IF JTruthy(v) THEN v ELSE default

\* str(v), lines 231-232
PyStr(v) ==
    CASE v.t = "str" -> v.v
      [] v.t = "num" -> Chars(ToString(v.v))
      [] v.t = "bool" -> IF v.v THEN Chars("True") ELSE Chars("False")
      [] OTHER -> Chars("None")

\* s[:n]
Slice(s, n) ==
    IF n >= 0 THEN SubSeq(s, 1, Min(n, Len(s)))
    ELSE SubSeq(s, 1, Max(0, Len(s) + n))

\* line 280: the marker, a line feed and U+2026 (one character) first
Marker(limit) ==
    <<"\n", "U+2026">> \o Chars(" [truncated to ") \o Chars(ToString(limit))
      \o Chars(" chars]")

\* Fault: the marker is put in front of the cut text.
TruncateMarkerFirst(s, limit) ==
    IF Len(s) <= limit THEN s ELSE Marker(limit) \o Slice(s, limit)

\* Fault: a text of exactly the maximum length is cut too.
TruncateBelow(s, limit) ==
    IF Len(s) < limit THEN s ELSE Slice(s, limit) \o Marker(limit)

\* _truncate, lines 276-280, with self._max_output_chars = limit
Truncate(s, limit) ==
    IF Len(s) <= limit THEN s ELSE Slice(s, limit) \o Marker(limit)

\* lines 254 and 273: error or "Python execution failed"
ErrorOrDefault(error) == JOr(error, JText(Chars("Python execution failed")))

\* the characters str.rstrip() removes
Whitespace == {" ", "\n", "\t", "\r"}

\* s.rstrip()
Rstrip(s) ==
    LET keep == {i \in 1..Len(s) : s[i] \notin Whitespace}
    IN  IF keep = {} THEN <<>>
        ELSE SubSeq(s, 1, CHOOSE i \in keep : \A j \in keep : j <= i)

\* sep.join(texts)
RECURSIVE Join(_, _)
Join(texts, sep) ==
    IF texts = <<>> THEN <<>>
    ELSE IF Len(texts) = 1 THEN texts[1]
    ELSE texts[1] \o sep \o Join(Tail(texts), sep)

\* lines 258-266: the labelled blocks of the text output, or the placeholder
Blocks(stdout, stderr, res) ==
    LET named ==
            (IF stdout # <<>>
               THEN <<[label |-> "stdout", body |-> Rstrip(stdout)]>> ELSE <<>>)
            \o (IF stderr # <<>>
                  THEN <<[label |-> "stderr", body |-> Rstrip(stderr)]>> ELSE <<>>)
            \o (IF res.t # "null"
                  THEN <<[label |-> "result", body |-> Rstrip(PyStr(res))]>>
                  ELSE <<>>)
    IN  IF named = <<>> THEN <<[label |-> "(no output)", body |-> <<>>]>>
        ELSE named

\* lines 260-266: the text of one block
Render(block) ==
    IF block.label = "(no output)" THEN Chars("(no output)")
    ELSE Chars(block.label) \o <<":", "\n">> \o block.body

\* line 268: "\n\n".join(blocks).rstrip() + "\n"
Combined(blocks) ==
    Rstrip(Join([i \in 1..Len(blocks) |-> Render(blocks[i])], <<"\n", "\n">>))
      \o <<"\n">>

\* execute, lines 231-274: the fields handed to the caller, the object of
\* the JSON output (format "json") and the text output (format "text")
Shape(resp, limit) ==
    LET stdout == Truncate(PyStr(JOr(resp.stdout, JText(<<>>))), limit)
        stderr == Truncate(PyStr(JOr(resp.stderr, JText(<<>>))), limit)
        res == IF resp.result.t = "str"
                    THEN JText(Truncate(resp.result.v, limit))
                    ELSE JGet(resp.result)
    IN  [success |-> JTruthy(resp.ok),
         stdout |-> stdout,
         stderr |-> stderr,
         result |-> res,
         error |-> IF JTruthy(resp.ok) THEN JNull
                   ELSE ErrorOrDefault(JGet(resp.error)),
         json |-> [ok |-> JTruthy(resp.ok), stdout |-> stdout,
                   stderr |-> stderr, result |-> res,
                   error |-> JGet(resp.error)],
         blocks |-> Blocks(stdout, stderr, res),
         output |-> Combined(Blocks(stdout, stderr, res))]

\* texts of at most MaxLen characters over an alphabet
Texts(alphabet) ==
    UNION {[1..n -> alphabet] : n \in 0..MaxLen}

\* configured values of BRYNHILD_PYODIDE_MAX_OUTPUT_CHARS, line 60
Limits == -1..MaxLen

\* responses a worker may give
Responses ==
    [ok : {JBool(TRUE), JBool(FALSE)},
     stdout : {JAbsent, JNum(5)} \cup {JText(x) : x \in Texts({"a", "b"})},
     stderr : {JText(x) : x \in Texts({"a"}) \cup {<<" ">>, <<"a", " ">>}},
     result : {JAbsent, JNum(5)} \cup {JText(x) : x \in Texts({"a"})},
     error : {JNull, JText(<<>>), JText([i \in 1..MaxLen |-> "a"])}]

\* execute, lines 230-274, applied to one response
ShapeResponse(resp, limit) ==
    /\ fn = NoFn
    /\ fn' = [op |-> "shape", resp |-> resp, limit |-> limit,
              ret |-> Shape(resp, limit)]
    /\ UNCHANGED tool

\* __init__, lines 52-56: the paths and the executable name, fixed at
\* construction; the paths are opaque here.
runner_path == "/plugin/deno/runner.ts"
vendor_pyodide == "/plugin/vendor/pyodide"
deno_bin == "deno"

\* Fault: the network grant is passed whatever the flag says.
NetAlways(allow_net) == <<"--allow-net">>

\* _spawn_proc_locked, lines 364-367
NetArgs(allow_net) == IF allow_net THEN <<"--allow-net">> ELSE <<>>

\* _spawn_proc_locked, lines 348-370: the argument list
SpawnArgs(memory_mb, allow_net) ==
    <<deno_bin, "run", "--quiet", "--no-prompt", "--no-lock", "--no-remote",
      "--unstable-detect-cjs",
      "--allow-read=" \o runner_path \o "," \o vendor_pyodide>>
    \o NetArgs(allow_net)
    \o <<"--v8-flags=--max-old-space-size=" \o ToString(memory_mb),
         runner_path>>

\* the memory ceilings a spawn can be given: the clamped values of line 169
MemorySamples == {MemoryLo, MemoryLo + 1, DefaultMemoryMb, MemoryHi}

LaunchArgs(memory_mb, allow_net) ==
    /\ fn = NoFn
    /\ fn' = [op |-> "spawn", memory_mb |-> memory_mb, allow_net |-> allow_net,
              args |-> SpawnArgs(memory_mb, allow_net)]
    /\ UNCHANGED tool

FnNext ==
    \/ \E in \in FnInputs : CheckInput(in)
    \/ \E resp \in Responses, limit \in Limits : ShapeResponse(resp, limit)
    \/ \E memory_mb \in MemorySamples, allow_net \in BOOLEAN :
           LaunchArgs(memory_mb, allow_net)

FnSpec == Init /\ [][FnNext]_vars

-----------------------------------------------------------------------------
(* Properties *)

\* C1: at most one caller at a time is between acquiring the gate and
\* releasing it, and the gate is marked taken while a caller is inside: the
\* reset, spawn, write, read and teardown steps of two calls never interleave.
C1_MutualExclusion ==
    \A c1, c2 \in Callers :
        InGate(c1) /\ InGate(c2) => c1 = c2 /\ locked

\* a caller waits for the gate while another reads the worker's response
C1_Witness ==
    \E c1, c2 \in Callers : c1 # c2 /\ pc[c1] = "read" /\ pc[c2] = "waiting"

\* requests in the worker's input minus response lines read from its output
InFlight(r) == r.written - r.read

\* C2: on every worker, request lines written minus response lines read is
\* always 0 or 1, and is 0 whenever a new request line is written to it.
C2_NoPipelining ==
    [][\A w \in WorkerIds :
          /\ InFlight(workers[w]) \in {0, 1}
          /\ InFlight(workers'[w]) \in {0, 1}
          /\ workers'[w].written > workers[w].written => InFlight(workers[w]) = 0
      ]_vars

\* a worker has been written its second request, the first one answered and read
C2_Witness ==
    \E w \in WorkerIds : workers[w].written = 2 /\ workers[w].read = 1

\* C3: after a call that read a response with ok=true the supervisor keeps the
\* same handle and tag; and when the next call in the gate has reset=false,
\* the same clamped memory_mb, and finds the worker not exited, its reuse check
\* writes the request to that same worker: no termination, no spawn.
C3_ReuseAfterOk ==
    [][hist.outcome = "ok" =>
        /\ (\A c \in Callers : ~InGate(c)) =>
              /\ proc = hist.proc
              /\ proc_memory_mb = workers[proc].mem
        /\ \A c \in Callers :
              ( /\ pc[c] = "check" /\ pc'[c] # "check"
                /\ ~call[c].reset
                /\ call[c].memory_mb = workers[hist.proc].mem
                /\ workers[hist.proc].alive )
              => /\ proc = hist.proc
                 /\ proc' = proc
                 /\ proc_memory_mb' = proc_memory_mb
                 /\ target'[c] = hist.proc
                 /\ pc'[c] \in {"drain", "read"}
                 /\ nspawned' = nspawned
                 /\ workers'[hist.proc].torn = "none"
                 /\ ~workers'[hist.proc].signalled
                 /\ ~workers'[hist.proc].marker
                 /\ StdinUsable(hist.proc) =>
                       \/ workers'[hist.proc].stalled
                       \/ workers'[hist.proc].written = workers[hist.proc].written + 1
      ]_vars

\* the second request is in the pipe of the worker that answered the first ok
C3_Witness ==
    /\ hist.outcome = "ok"
    /\ \E c \in Callers :
          /\ pc[c] = "read"
          /\ target[c] = hist.proc
          /\ workers[target[c]].written = 2
          /\ nspawned = 1

\* C4: a call with reset=true that finds a handle terminates it gracefully
\* before anything else, reaches the reuse check with no handle, and writes
\* its request only to a process spawned in this call, which no request line
\* was written to before.
C4_ResetFresh ==
    [][\A c \in Callers : call[c].reset =>
          /\ (pc[c] = "locked" /\ pc'[c] # "locked" /\ proc # NoProc) =>
                /\ proc' = NoProc
                /\ workers'[proc].torn = "graceful"
                /\ pc'[c] \in {"kdrain", "kwait"}
          /\ pc[c] = "check" => proc = NoProc
          /\ (target[c] = NoProc /\ target'[c] # NoProc) =>
                /\ ~workers[target'[c]].spawned
                /\ workers'[target'[c]].fresh
                /\ workers'[target'[c]].read = 0
                /\ workers'[target'[c]].written =
                      IF workers'[target'[c]].stalled THEN 0 ELSE 1
                /\ proc' = target'[c]
      ]_vars

\* a reset call waits for the answer of the second process, the first one
\* having been terminated gracefully
C4_Witness ==
    \E c \in Callers :
        /\ call[c].reset
        /\ pc[c] = "read"
        /\ target[c] = 2
        /\ workers[1].torn = "graceful"

\* C5: when the read ends with the timeout, the worker has been sent the kill
\* signal by forced termination and the supervisor holds no handle and no tag
\* before the gate is released; the call fails with the timeout error; and no
\* request line is ever written to that worker again, nor does it become the
\* handle or the target of a call again.
C5_TimeoutKills ==
    [][/\ \A c \in Callers : (pc[c] = "exit" /\ outcome[c] = "timeout") =>
             /\ proc = NoProc
             /\ proc_memory_mb = NoMem
             /\ workers[target[c]].signalled
             /\ workers[target[c]].torn = "forced"
             /\ ~ResultOf(c).success /\ ~ResultOf(c).raised
             /\ ResultOf(c).kind = "timeout"
             /\ locked
       /\ \A c \in Callers : (pc[c] = "read" /\ pc'[c] = "fwait") =>
             /\ workers'[target[c]].signalled
             /\ proc' = NoProc
       /\ \A w \in WorkerIds : workers[w].torn = "forced" =>
             /\ workers'[w].written <= workers[w].written
             /\ proc' # w
             /\ \A c \in Callers : target'[c] = w => target[c] = w
      ]_vars

\* a call is about to leave the gate with the timeout, its worker signalled
\* but not exited
C5_Witness ==
    \E c \in Callers :
        /\ pc[c] = "exit"
        /\ outcome[c] = "timeout"
        /\ workers[target[c]].alive

\* C6: in the call that holds the gate next after a call that timed out, the
\* reuse check finds no handle and goes on to spawn; the request is written
\* only to a process spawned in this call, never to the one that timed out;
\* and when that process answers ok=true the call succeeds.  The timed-out
\* process may still not have exited, and the timeouts of both calls are any
\* of the clamped values.
C6_RecoveryAfterTimeout ==
    [][hist.outcome = "timeout" =>
        \A c \in Callers :
          /\ pc[c] \in {"locked", "check"} => proc = NoProc
          /\ (pc[c] = "check" /\ pc'[c] # "check") => pc'[c] = "spawn"
          /\ target[c] # NoProc =>
                /\ target[c] # hist.proc
                /\ workers[target[c]].fresh
          /\ (pc[c] = "read" /\ pc'[c] # "read" /\ workers[target[c]].out = "ok") =>
                /\ pc'[c] = "exit"
                /\ outcome'[c] = "ok"
          /\ (pc[c] = "exit" /\ outcome[c] = "ok") =>
                /\ ResultOf(c).success
                /\ ~ResultOf(c).raised
                /\ pc'[c] # "exit" => result' = ResultOf(c)
      ]_vars

\* the call after a timeout is about to return success from a second process
\* while the first, killed, has not exited
C6_Witness ==
    /\ hist.outcome = "timeout"
    /\ workers[hist.proc].alive
    /\ \E c \in Callers :
          /\ pc[c] = "exit"
          /\ outcome[c] = "ok"
          /\ target[c] # hist.proc

\* C7: when the line read does not parse as JSON, the worker is killed and the
\* supervisor holds no handle before the gate is released, and the caller gets
\* the protocol error.
C7_ProtocolErrorKills ==
    \A c \in Callers : (pc[c] = "exit" /\ outcome[c] = "protocol") =>
        /\ proc = NoProc
        /\ proc_memory_mb = NoMem
        /\ workers[target[c]].signalled \/ ~workers[target[c]].alive
        /\ ResultOf(c).kind = "protocol"

\* C8: when the read ends at end-of-stream, the supervisor first takes an
\* excerpt of at most MaxStderrBytes of the worker's error stream, then
\* terminates the worker, which until then was the handle and untouched; it
\* holds no handle and no tag before the gate is released, the worker is then
\* signalled or has exited, and the caller gets the worker-died error with
\* that excerpt.
C8_WorkerDied ==
    [][\A c \in Callers :
          /\ pc[c] = "eerr" =>
                /\ proc = target[c]
                /\ workers[target[c]].torn = "none"
                /\ ~workers[target[c]].signalled
                /\ err[c] = NoErr
          /\ (pc[c] = "eerr" /\ pc'[c] # "eerr") =>
                /\ err'[c] # NoErr
                /\ err'[c].len <= MaxStderrBytes
                /\ proc' = NoProc
                /\ workers'[target[c]].torn = "graceful"
          /\ (pc[c] = "exit" /\ outcome[c] = "died") =>
                /\ proc = NoProc
                /\ proc_memory_mb = NoMem
                /\ workers[target[c]].torn = "graceful"
                /\ workers[target[c]].signalled \/ ~workers[target[c]].alive
                /\ ~ResultOf(c).success /\ ~ResultOf(c).raised
                /\ ResultOf(c).kind = "died"
                /\ ResultOf(c).excerpt = err[c]
                /\ err[c] # NoErr
                /\ err[c].len <= MaxStderrBytes
                /\ locked
      ]_vars

\* a call is about to leave the gate with the worker-died error, carrying an
\* excerpt cut at the bound
C8_Witness ==
    \E c \in Callers :
        /\ pc[c] = "exit"
        /\ outcome[c] = "died"
        /\ err[c] = [kind |-> "data", len |-> MaxStderrBytes]

\* a response line with ok=false
FailLines == {"fail", "fail_noerr"}

\* C9: a response with ok=false is returned as data: the read leaves handle,
\* tag and process as they are, the call leaves the gate with the same handle
\* whose tag is the ceiling it was spawned with, no termination routine ran
\* and no signal was sent, and the caller gets success=false with the
\* interpreter's error text (the default text when the response has none).
C9_SandboxErrorKeepsWorker ==
    [][\A c \in Callers :
          /\ ( /\ pc[c] = "read" /\ pc'[c] # "read"
               /\ workers[target[c]].out \in FailLines ) =>
                /\ pc'[c] = "exit"
                /\ outcome'[c] = workers[target[c]].out
                /\ proc' = proc
                /\ proc_memory_mb' = proc_memory_mb
                /\ workers'[target[c]].signalled = workers[target[c]].signalled
                /\ workers'[target[c]].torn = workers[target[c]].torn
          /\ (pc[c] = "exit" /\ outcome[c] \in FailLines) =>
                /\ proc = target[c]
                /\ proc_memory_mb = workers[proc].mem
                /\ workers[proc].torn = "none"
                /\ ~workers[proc].signalled
                /\ ~workers[proc].marker
                /\ ~ResultOf(c).success /\ ~ResultOf(c).raised
                /\ ResultOf(c).kind = "sandbox"
                /\ outcome[c] = "fail" => ResultOf(c).error = "interpreter error text"
          /\ (pc[c] = "exit" /\ pc'[c] # "exit" /\ outcome[c] \in FailLines) =>
                /\ proc' = proc
                /\ proc_memory_mb' = proc_memory_mb
                /\ result' = ResultOf(c)
                /\ hist'.proc = proc
      ]_vars

\* a call is about to return the interpreter's error from a worker that runs on
C9_Witness ==
    \E c \in Callers :
        /\ pc[c] = "exit"
        /\ outcome[c] = "fail"
        /\ workers[target[c]].alive

\* C10: every call that has acquired the gate eventually releases it,
\* whatever the worker does.
C10_GateReleased ==
    \A c \in Callers : InGate(c) ~> ~InGate(c)

\* the ways a call ends that the supervisor answers by discarding the worker
ErrorOutcomes == {"timeout", "died", "protocol"}

\* C11: after a call that ended with a timeout, a worker death or a protocol
\* error, the worker that produced the error is no longer the handle once the
\* gate is free, the gate is free once the call has left it, and no later
\* call writes its request to that worker.
C11_ReplacedAfterError ==
    hist.outcome \in ErrorOutcomes =>
        /\ (\A c \in Callers : ~InGate(c)) => ~locked /\ proc # hist.proc
        /\ \A c \in Callers : target[c] # NoProc => target[c] # hist.proc

\* C12: the tag of the handle is the ceiling its process was spawned with;
\* whenever a call writes its request line, the worker written to has that
\* call's clamped memory_mb as its ceiling and, when it is a reused one, was
\* found not exited by the reuse check; and a reuse check that finds a handle
\* whose tag differs from the call's clamped memory_mb writes nothing, starts
\* the graceful termination of that worker and goes on to a spawn, which
\* gives the new process the call's ceiling.
C12_WriteMatchesCeiling ==
    [][/\ proc # NoProc => proc_memory_mb = workers[proc].mem
       /\ \A c \in Callers :
             /\ (target[c] = NoProc /\ target'[c] # NoProc) =>
                   /\ workers'[target'[c]].mem = call[c].memory_mb
                   /\ workers'[target'[c]].alive
                   /\ pc[c] = "check" =>
                         /\ target'[c] = proc
                         /\ workers[proc].alive
                         /\ workers[proc].mem = call[c].memory_mb
             /\ ( /\ pc[c] = "check" /\ pc'[c] # "check"
                  /\ proc # NoProc
                  /\ proc_memory_mb # call[c].memory_mb ) =>
                   /\ target'[c] = NoProc
                   /\ proc' = NoProc
                   /\ workers'[proc].torn = "graceful"
                   /\ workers'[proc].written = workers[proc].written
                   /\ pc'[c] \in {"kdrain", "kwait"}
                   /\ killRet'[c] = "spawn"
             /\ (pc[c] = "spawn" /\ nspawned' # nspawned) =>
                   /\ proc' = nspawned'
                   /\ target'[c] = nspawned'
                   /\ workers'[nspawned'].mem = call[c].memory_mb
                   /\ proc_memory_mb' = call[c].memory_mb
      ]_vars

\* a call without reset waits for the answer of a second process, the first,
\* which answered the call before with ok=true and has not exited, having
\* been terminated gracefully
C12_Witness ==
    /\ hist.outcome = "ok"
    /\ hist.proc = 1
    /\ workers[1].alive
    /\ workers[1].torn = "graceful"
    /\ \E c \in Callers :
          /\ pc[c] = "read"
          /\ ~call[c].reset
          /\ target[c] = 2
          /\ workers[2].mem = call[c].memory_mb

\* the input gives every key but timeout_ms and memory_mb a valid value
OnlyNumbersVary(in) ==
    \A f \in Fields \ {"timeout_ms", "memory_mb"} : in[f] = BaseInput[f]

\* C13: an input whose timeout_ms and memory_mb are integers, given or
\* defaulted, is not rejected whatever their size, and the call goes on with
\* min(hi, max(lo, value)) for each, the range being [1, 600000] for
\* timeout_ms and [16, 4096] for memory_mb.
C13_Clamped ==
    fn.op = "check" =>
        LET t == Get(fn.input.timeout_ms, IntV(DefaultTimeoutMs))
            m == Get(fn.input.memory_mb, IntV(DefaultMemoryMb))
        IN  (OnlyNumbersVary(fn.input) /\ t.t = "int" /\ m.t = "int") =>
                /\ fn.error = ""
                /\ fn.locals.timeout_ms = Min(TimeoutHi, Max(TimeoutLo, t.n))
                /\ fn.locals.memory_mb = Min(MemoryHi, Max(MemoryLo, m.n))
                /\ fn.locals.timeout_ms \in TimeoutLo..TimeoutHi
                /\ fn.locals.memory_mb \in MemoryLo..MemoryHi

\* a timeout above the range was accepted and cut to the upper bound, the
\* memory ceiling being the default
C13_Witness ==
    /\ fn.op = "check"
    /\ fn.input.timeout_ms = IntV(TimeoutHi + 1)
    /\ fn.error = ""
    /\ fn.locals.timeout_ms = TimeoutHi
    /\ fn.locals.memory_mb = DefaultMemoryMb

\* the input carries, under some key, a value that is neither null nor of the
\* type the schema declares for the key
WrongTyped(in) ==
    \E f \in Fields : in[f].t \notin {"absent", "none", SchemaType[f]}

\* C14: an input with a value of the wrong type under any key is rejected
\* with a validation error.
C14_WrongTypeRejected ==
    (fn.op = "check" /\ WrongTyped(fn.input)) => fn.error # ""

\* C15: the step in which a request is rejected by the validation returns a
\* failure with the error text and changes nothing else: the gate and its
\* queue, the handle and its tag, every process and the other calls are as
\* they were, whatever the request carried besides and whoever holds the gate.
C15_RejectedWithoutWorker ==
    [][result'.kind = "validation" =>
          /\ ~result'.success /\ ~result'.raised
          /\ result'.error # ""
          /\ UNCHANGED <<locked, waiters, proc, proc_memory_mb, workers, nspawned,
                         pc, call, target, victim, killRet, outcome, err, hist>>
      ]_vars

\* the request with reset=true and a memory_mb that is not an integer has
\* been rejected while another call holds the gate and waits for the answer
\* of the current worker
C15_Witness ==
    /\ result.kind = "validation"
    /\ result.error = "memory_mb must be an integer"
    /\ locked
    /\ proc # NoProc
    /\ workers[proc].alive
    /\ \E c \in Callers : pc[c] = "read" /\ target[c] = proc

\* C16: a request whose files map is over the entry-count limit never gets
\* as far as a worker: no process is spawned for it and its request line is
\* written to none.
C16_OverBudgetRejected ==
    \A c \in Callers : call[c].over => target[c] = NoProc /\ pc[c] # "spawn"

\* C17: the step in which a request fails the launch check (runner script,
\* vendored runtime or executable missing) returns a failure with the error
\* text and changes nothing else: the gate is not taken, nothing is spawned,
\* the handle, its tag and every process are as they were.
C17_LaunchErrorLocal ==
    [][result'.kind = "launch" =>
          /\ ~result'.success /\ ~result'.raised
          /\ result'.error # ""
          /\ UNCHANGED <<locked, waiters, proc, proc_memory_mb, workers, nspawned,
                         pc, call, target, victim, killRet, outcome, err, hist>>
      ]_vars

\* a request has failed the launch check while the worker that answered the
\* call before is the handle and runs on, and the gate is free
C17_Witness ==
    /\ result.kind = "launch"
    /\ hist.outcome = "ok"
    /\ proc = hist.proc
    /\ workers[proc].alive
    /\ ~locked

\* C18: with a maximum of zero or more characters configured, none of the
\* texts handed to the caller (stdout, stderr, a textual result, the error
\* text of the worker) is longer than the maximum.
C18_FieldsWithinLimit ==
    (fn.op = "shape" /\ fn.limit >= 0) =>
        /\ Len(fn.ret.stdout) <= fn.limit
        /\ Len(fn.ret.stderr) <= fn.limit
        /\ fn.ret.result.t = "str" => Len(fn.ret.result.v) <= fn.limit
        /\ (fn.ret.error.t = "str" /\ fn.ret.error = fn.resp.error) =>
              Len(fn.ret.error.v) <= fn.limit

\* the digits of the limit stand somewhere in m
StatesLimit(m, limit) ==
    LET d == Chars(ToString(limit))
    IN  \E i \in 1..(Len(m) - Len(d) + 1) : SubSeq(m, i, i + Len(d) - 1) = d

\* t is s when s has at most limit characters, and only then; otherwise t is
\* the first limit characters of s and after them a marker with the limit
CutAsClaimed(s, t, limit) ==
    /\ Len(s) <= limit <=> t = s
    /\ Len(s) > limit =>
          /\ Len(t) > limit
          /\ SubSeq(t, 1, limit) = SubSeq(s, 1, limit)
          /\ StatesLimit(SubSeq(t, limit + 1, Len(t)), limit)

\* C19: with a maximum of zero or more characters configured, each of stdout,
\* stderr and a textual result of the response is handed to the caller
\* unchanged exactly when it has at most the maximum of characters, and
\* otherwise as its first maximum characters followed by a marker that states
\* the maximum; what one field becomes depends on no other field.
C19_TruncatedIndependently ==
    (fn.op = "shape" /\ fn.limit >= 0) =>
        /\ fn.resp.stdout.t = "str" =>
              CutAsClaimed(fn.resp.stdout.v, fn.ret.stdout, fn.limit)
        /\ fn.resp.stdout.t = "absent" => fn.ret.stdout = <<>>
        /\ fn.resp.stderr.t = "str" =>
              CutAsClaimed(fn.resp.stderr.v, fn.ret.stderr, fn.limit)
        /\ fn.resp.result.t = "str" =>
              /\ fn.ret.result.t = "str"
              /\ CutAsClaimed(fn.resp.result.v, fn.ret.result.v, fn.limit)

\* of one response, the stdout of three characters was cut to two and marked
\* while the stderr of two characters and the empty result came back as they
\* were
C19_Witness ==
    /\ fn.op = "shape"
    /\ fn.limit = 2
    /\ fn.resp.stdout = JText(<<"a", "b", "a">>)
    /\ fn.resp.stderr = JText(<<"a", "a">>)
    /\ fn.resp.result = JText(<<>>)
    /\ fn.ret.stdout = <<"a", "b">> \o Marker(2)
    /\ fn.ret.stderr = <<"a", "a">>
    /\ fn.ret.result = JText(<<>>)

\* C20: every result execute returns has an error text exactly when its
\* success flag is false, whichever way the call ended.
C20_ErrorIffFailure ==
    (result.kind # "" /\ ~result.raised) =>
        /\ ~result.success => result.error # ""
        /\ result.success => result.error = ""
        /\ result.success <=> result.kind = "none"

\* a call has returned the default error text for a response with ok=false
\* that had none
C20_Witness ==
    /\ result.kind = "sandbox"
    /\ ~result.success
    /\ result.error = "Python execution failed"
    /\ hist.outcome = "fail_noerr"

\* the labels of the blocks of the text output, in their order
Labels(blocks) == [i \in 1..Len(blocks) |-> blocks[i].label]

\* C21: when the response has ok false, the object of the JSON output has a
\* null result and the text output has no result block, whatever result the
\* worker sent.
C21_ResultOnlyOnSuccess ==
    (fn.op = "shape" /\ ~fn.ret.success) =>
        /\ fn.ret.json.result = JNull
        /\ \A i \in 1..Len(fn.ret.blocks) : fn.ret.blocks[i].label # "result"

\* the labels the text output is to have for the fields handed to the
\* caller: one per field that is not empty, in the order stdout, stderr,
\* result, and the placeholder when there is none
LabelsAsClaimed(ret) ==
    LET named ==
            (IF ret.stdout # <<>> THEN <<"stdout">> ELSE <<>>)
            \o (IF ret.stderr # <<>> THEN <<"stderr">> ELSE <<>>)
            \o (IF ret.result \notin {JNull, JText(<<>>)}
                  THEN <<"result">> ELSE <<>>)
    IN  IF named = <<>> THEN <<"(no output)">> ELSE named

\* C22: the text output has the stdout, stderr and result blocks in that
\* order, each exactly when its field is not empty, and the placeholder
\* exactly when all three are empty, an empty-string result included.
C22_TextBlocks ==
    fn.op = "shape" =>
        /\ Labels(fn.ret.blocks) = LabelsAsClaimed(fn.ret)
        /\ fn.ret.output =
              Rstrip(Join([i \in 1..Len(fn.ret.blocks) |-> Render(fn.ret.blocks[i])],
                          <<"\n", "\n">>)) \o <<"\n">>

\* C23: a process comes under forced termination only in the step in which
\* the read of a call that targets it ends with the timeout, and that step
\* signals it without writing the shutdown marker to, or closing, its input
\* stream; every read that ends with the timeout does so; a process comes
\* under graceful termination only at the reset, at the reuse check and after
\* end-of-stream, and every teardown there is graceful.
C23_ForcedOnlyOnTimeout ==
    [][/\ \A w \in WorkerIds :
             /\ (workers[w].torn # "forced" /\ workers'[w].torn = "forced") =>
                   /\ \E c \in Callers :
                         /\ pc[c] = "read" /\ pc'[c] = "fwait"
                         /\ target[c] = w
                         /\ workers[w].out = "" /\ workers[w].stdoutOpen
                   /\ workers[w].torn = "none"
                   /\ workers'[w].signalled
                   /\ workers'[w].marker = workers[w].marker
                   /\ workers'[w].supClosed = workers[w].supClosed
                   /\ workers'[w].written = workers[w].written
                   /\ ~workers'[w].marker /\ ~workers'[w].supClosed
             /\ (workers[w].torn # "graceful" /\ workers'[w].torn = "graceful") =>
                   /\ \E c \in Callers :
                         /\ pc[c] \in {"locked", "check", "eerr"}
                         /\ pc'[c] \in {"kdrain", "kwait"}
                         /\ victim'[c] = w
                   /\ workers[w].torn = "none"
             /\ workers[w].torn = "forced" =>
                   /\ ~workers[w].marker /\ ~workers[w].supClosed
                   /\ workers'[w].torn = "forced"
       /\ \A c \in Callers :
             /\ (pc[c] = "read" /\ pc'[c] = "fwait") =>
                   workers'[target[c]].torn = "forced"
             /\ (pc[c] \in {"locked", "check", "eerr"} /\ victim'[c] # victim[c]) =>
                   workers'[victim'[c]].torn = "graceful"
      ]_vars

\* after a timeout the forced routine waits for a process it has signalled and
\* whose input stream is open and without the marker, while an earlier process
\* was terminated gracefully
C23_Witness ==
    \E c \in Callers :
        /\ pc[c] = "fwait"
        /\ workers[victim[c]].torn = "forced"
        /\ workers[victim[c]].signalled
        /\ workers[victim[c]].stdinOpen
        /\ ~workers[victim[c]].marker
        /\ \E w \in WorkerIds : workers[w].torn = "graceful"

\* the suspension points of the graceful termination routine
KillPcs == {"kdrain", "kwait"}

\* C24: graceful termination writes the shutdown marker first, to an input
\* stream that is not closing, and waits for the flush; whatever the flush
\* did, it then closes the input stream and signals the process if that has
\* not exited; a stream that is already closing is left out and the signal
\* comes at once; then comes the wait for the exit, after which the routine
\* returns to where it was called from whether the process has exited or
\* not.  A call inside the routine always leaves it: as one call at a time is
\* inside, the routine is left again and again.
C24_GracefulOrder ==
    /\ [][\A c \in Callers :
             /\ (pc[c] \notin KillPcs /\ pc'[c] = "kdrain") =>
                   /\ StdinUsable(victim'[c])
                   /\ workers'[victim'[c]].marker
                   /\ ~workers'[victim'[c]].supClosed
                   /\ workers'[victim'[c]].signalled = workers[victim'[c]].signalled
             /\ (pc[c] \notin KillPcs /\ pc'[c] = "kwait") =>
                   /\ ~StdinUsable(victim'[c])
                   /\ workers'[victim'[c]].marker = workers[victim'[c]].marker
                   /\ workers[victim'[c]].alive => workers'[victim'[c]].signalled
             /\ (pc[c] = "kdrain" /\ pc'[c] # "kdrain") =>
                   /\ pc'[c] = "kwait"
                   /\ workers[victim[c]].marker
                   /\ workers'[victim[c]].supClosed
                   /\ workers[victim[c]].alive => workers'[victim[c]].signalled
                   /\ ~workers[victim[c]].alive =>
                         workers'[victim[c]].signalled = workers[victim[c]].signalled
             /\ (pc[c] = "kwait" /\ pc'[c] # "kwait") =>
                   /\ pc'[c] = killRet[c]
                   /\ victim'[c] = NoProc
                   /\ workers'[victim[c]].alive = workers[victim[c]].alive
         ]_vars
    /\ []<>(\A c \in Callers : pc[c] \notin KillPcs)

\* the graceful routine has returned and left behind a process it signalled
\* and that has not exited
C24_Witness ==
    \E w \in WorkerIds :
        /\ workers[w].torn = "graceful"
        /\ workers[w].signalled
        /\ workers[w].alive
        /\ proc # w
        /\ \A c \in Callers : victim[c] # w

C26_HandleUnderGate ==
    /\ [](\A c \in Callers :
             pc[c] \in {"locked", "check", "spawn"} =>
                 locked /\ \A d \in Callers \ {c} : ~InGate(d))
    /\ [][(proc' # proc \/ proc_memory_mb' # proc_memory_mb) =>
             \E c \in Callers :
                 /\ locked /\ locked'
                 /\ InGate(c) /\ pc'[c] \in GatePcs
                 /\ pc'[c] # pc[c]
                 /\ ncalls' = ncalls
                 /\ \A d \in Callers \ {c} : pc'[d] = pc[d] /\ ~InGate(d)
                 /\ \/ /\ pc[c] = "spawn"
                       /\ proc' \in WorkerIds
                       /\ proc_memory_mb' = call[c].memory_mb
                    \/ /\ pc[c] \in {"locked", "check", "read", "eerr"}
                       /\ proc' = NoProc
                       /\ proc_memory_mb' = NoMem
         ]_vars

\* a call has cleared the handle in the graceful termination routine and is
\* still inside it, while the other caller waits for the gate
C26_Witness ==
    \E c, d \in Callers :
        /\ pc[c] \in KillPcs
        /\ victim[c] # NoProc
        /\ proc = NoProc
        /\ proc_memory_mb = NoMem
        /\ pc[d] = "waiting"

HasPrefix(s, p) == Len(s) >= Len(p) /\ SubSeq(s, 1, Len(p)) = p

\* the arguments of a launch that grant the worker a permission
Grants(args) ==
    {args[i] : i \in {j \in 3..Len(args) :
                        \/ HasPrefix(args[j], "--allow-")
                        \/ args[j] \in {"-A", "--allow-all"}}}

\* C27: for every memory ceiling and network flag the permissions granted
\* by the launch arguments are read access to the runner script and the
\* vendored runtime directory and, exactly when the flag is set, network
\* access, and nothing else (no environment, no write access); modules are
\* never loaded from the network; the one V8 flag caps the heap at the
\* ceiling; and the list is a function of the two inputs.
C27_LaunchArgs ==
    fn.op = "spawn" =>
        /\ Grants(fn.args) =
              {"--allow-read=" \o runner_path \o "," \o vendor_pyodide}
              \cup (IF fn.allow_net THEN {"--allow-net"} ELSE {})
        /\ \E i \in 3..Len(fn.args) : fn.args[i] = "--no-remote"
        /\ {fn.args[i] : i \in {j \in 3..Len(fn.args) :
                                   HasPrefix(fn.args[j], "--v8-flags")}} =
              {"--v8-flags=--max-old-space-size=" \o ToString(fn.memory_mb)}
        /\ fn.args[1] = deno_bin /\ fn.args[2] = "run"
        /\ fn.args[Len(fn.args)] = runner_path
        /\ fn.args = SpawnArgs(fn.memory_mb, fn.allow_net)

\* a launch at the lowest ceiling with the network flag off
C27_Witness ==
    /\ fn.op = "spawn"
    /\ ~fn.allow_net
    /\ fn.memory_mb = MemoryLo
    /\ Len(fn.args) = 10

\* C28: whatever the worker does, what a call hands to its caller is a
\* result value: no exception leaves execute.
C28_NoExceptionEscapes == ~result.raised

\* C29: the way the bounded read of a call ends decides the class of its
\* failure and nothing else does: no line while the stream is open (the
\* timeout) leads to a timeout error, end-of-stream without a line to a
\* worker-died error, a line that is not JSON to a protocol error, and any
\* other line to none of the three; a call gets one of the three classes
\* only on that path, keeps it until it leaves the gate, and is handed a
\* failure of exactly that class, which is not a sandboxed-code failure.
C29_ReadDecidesClass ==
    [][\A c \in Callers :
          /\ (pc[c] = "read" /\ pc'[c] # "read") =>
                LET line == workers[target[c]].out
                    open == workers[target[c]].stdoutOpen
                IN  /\ pc'[c] = "perr" <=> line = "garbage"
                    /\ pc'[c] = "eerr" <=> (line = "" /\ ~open)
                    /\ pc'[c] = "fwait" <=> (line = "" /\ open)
                    /\ pc'[c] = "exit" <=> line \notin {"", "garbage"}
                    /\ pc'[c] = "exit" => outcome'[c] = line
                    /\ pc'[c] # "exit" => outcome'[c] = outcome[c]
          /\ (outcome'[c] # outcome[c] /\ outcome'[c] \in ErrorOutcomes) =>
                \/ pc[c] = "fwait" /\ outcome'[c] = "timeout"
                \/ pc[c] = "eerr" /\ outcome'[c] = "died"
                \/ pc[c] = "perr" /\ outcome'[c] = "protocol"
          /\ (pc[c] \in {"fwait", "eerr", "perr"} /\ pc'[c] # pc[c]) =>
                outcome'[c] \in ErrorOutcomes
          /\ (outcome[c] \in ErrorOutcomes /\ pc'[c] # "idle") =>
                outcome'[c] = outcome[c]
          /\ (pc[c] = "exit" /\ pc'[c] = "idle") =>
                /\ outcome[c] \in ErrorOutcomes =>
                      /\ result'.kind = outcome[c]
                      /\ ~result'.success /\ ~result'.raised
                /\ result'.kind \in ErrorOutcomes => result'.kind = outcome[c]
                /\ result'.kind = "sandbox" => outcome[c] \in FailLines
                /\ result'.kind = "timeout" =>
                      result'.error = "Execution timed out"
                /\ result'.kind = "died" =>
                      result'.error = "Deno runner exited unexpectedly"
                /\ result'.kind = "protocol" =>
                      result'.error = "Runner returned non-JSON output"
                /\ result'.kind \in ErrorOutcomes =>
                      \A d \in FailLines : result'.error # FailureText(d)
      ]_vars

\* a call has been handed a worker-died error for the second worker of the
\* instance, with the excerpt of its error stream cut to the bound
C29_Witness ==
    /\ result.kind = "died"
    /\ hist.outcome = "died"
    /\ hist.proc = 2
    /\ result.excerpt.len = MaxStderrBytes

\* the timeout the input asks for: the given value, or the default
Requested(in) == Get(in.timeout_ms, IntV(DefaultTimeoutMs)).n

\* C30: a call keeps the timeout computed at its submission until it leaves
\* the gate, the wait for the response line included, and a timeout error
\* states that value: the requested timeout where it lies in [1, 600000],
\* else the bound it was clamped to, never the raw input.
C30_TimeoutReported ==
    [][\A c \in Callers :
          /\ (pc[c] = "idle" /\ pc'[c] # "idle") =>
                \E in \in Inputs : Validate(in) = "" /\ call'[c] = Locals(in)
          /\ (pc[c] # "idle" /\ pc'[c] # "idle") => call'[c] = call[c]
          /\ (pc[c] = "exit" /\ pc'[c] = "idle" /\ outcome[c] = "timeout") =>
                /\ result'.kind = "timeout"
                /\ result'.timeout_ms = call[c].timeout_ms
                /\ result'.timeout_ms \in TimeoutLo..TimeoutHi
                /\ \A in \in Inputs :
                      (Validate(in) = "" /\ Locals(in) = call[c]) =>
                          result'.timeout_ms =
                              IF Requested(in) < TimeoutLo THEN TimeoutLo
                              ELSE IF Requested(in) > TimeoutHi THEN TimeoutHi
                              ELSE Requested(in)
          /\ (pc[c] = "exit" /\ pc'[c] = "idle" /\ outcome[c] # "timeout") =>
                result'.timeout_ms = 0
      ]_vars

\* a call that asked for 600001 ms, one more than the upper bound, has been
\* handed a timeout error, which states 600000 ms
C30_Witness ==
    /\ result.kind = "timeout"
    /\ result.timeout_ms = TimeoutHi
    /\ hist.outcome = "timeout"

\* C31: whenever the gate is free, the current handle and its memory tag are
\* both absent or both present, and a tag that is present is the ceiling the
\* current worker was spawned with.
C31_HandleAndTag ==
    ~locked =>
        /\ proc = NoProc <=> proc_memory_mb = NoMem
        /\ proc # NoProc => proc_memory_mb = workers[proc].mem

\* the gate is free after a call whose spawn failed, which had terminated
\* the worker of an earlier call first: neither handle nor tag is left
C31_Witness ==
    /\ ~locked
    /\ hist.outcome = "spawnfail"
    /\ nspawned >= 1
    /\ proc = NoProc
    /\ proc_memory_mb = NoMem

\* C32: a worker whose termination the supervisor has begun is not the
\* current handle: the step that begins it, in either routine, takes the
\* worker from the handle, clears handle and tag and makes the worker the
\* routine's local; nothing the supervisor does to a worker's input stream
\* or process (shutdown marker, close, kill signal) leaves that worker as the
\* handle; a worker's termination is begun at most once; and a routine called
\* with no handle changes nothing.
C32_ClearedBeforeTeardown ==
    /\ [](\A w \in WorkerIds : workers[w].torn # "none" => proc # w)
    /\ [][/\ \A w \in WorkerIds :
               /\ workers[w].torn # "none" =>
                     workers'[w].torn = workers[w].torn
               /\ workers'[w].torn # workers[w].torn =>
                     /\ proc = w
                     /\ proc' = NoProc /\ proc_memory_mb' = NoMem
                     /\ \E c \in Callers :
                           /\ InGate(c)
                           /\ victim[c] = NoProc /\ victim'[c] = w
               /\ \/ workers'[w].marker /\ ~workers[w].marker
                  \/ workers'[w].supClosed /\ ~workers[w].supClosed
                  \/ workers'[w].signalled /\ ~workers[w].signalled
                  => proc' # w /\ workers'[w].torn # "none"
               /\ \A c \in Callers :
                     (victim'[c] = w /\ victim[c] # w) =>
                         workers[w].torn = "none"
          /\ \A c \in Callers :
               (pc[c] \in {"locked", "check"} /\ pc'[c] # pc[c] /\ proc = NoProc) =>
                   /\ pc'[c] \in {"check", "spawn"}
                   /\ UNCHANGED <<proc, proc_memory_mb, workers, victim, killRet>>
         ]_vars

\* the supervisor has terminated one worker with the graceful routine and
\* another with the forced one, and has no handle
C32_Witness ==
    /\ proc = NoProc
    /\ \E w1, w2 \in WorkerIds :
          /\ workers[w1].torn = "graceful"
          /\ workers[w2].torn = "forced"
    /\ \A c \in Callers : pc[c] = "idle"

\* the workers the supervisor spawned that have neither exited nor been sent
\* the kill signal
Unsignalled == {w \in WorkerIds : /\ workers[w].spawned
                                  /\ workers[w].alive
                                  /\ ~workers[w].signalled}

\* C33: at most one spawned worker has neither exited nor been sent the kill
\* signal, and when a worker is spawned every worker spawned before it has
\* exited or been signalled.
C33_OneLiveWorker ==
    /\ [](Cardinality(Unsignalled) <= 1)
    /\ [][nspawned' # nspawned =>
             /\ Unsignalled = {}
             /\ Unsignalled' = {nspawned'}
             /\ proc' = nspawned'
         ]_vars

\* a replacement runs while the worker it replaced, which was sent the kill
\* signal, has not exited yet
C33_Witness ==
    /\ nspawned = 2
    /\ workers[1].alive /\ workers[1].signalled
    /\ workers[2].alive /\ ~workers[2].signalled
    /\ proc = 2

\* C34: a call whose request line could not be written or flushed is handed
\* a failure, and when it releases the gate the supervisor has no handle and
\* no tag.
C34_WriteFailureDropsWorker ==
    [][\A c \in Callers :
          (pc[c] = "exit" /\ pc'[c] = "idle" /\ outcome[c] = "writefail") =>
              /\ ~result'.success /\ ~result'.raised
              /\ proc' = NoProc
              /\ proc_memory_mb' = NoMem
      ]_vars

\* C35: a call that is about to spawn holds no handle and no tag, the
\* worker it terminated included; when the spawn fails the call is handed a
\* failure and leaves the gate free with neither handle nor tag; and a call
\* that finds no handle at the reuse check goes on to spawn.
C35_SpawnFailure ==
    /\ [](\A c \in Callers :
             pc[c] = "spawn" \/ outcome[c] = "spawnfail" =>
                 proc = NoProc /\ proc_memory_mb = NoMem)
    /\ [][\A c \in Callers :
             /\ (pc[c] = "spawn" /\ pc'[c] # "spawn" /\ nspawned' = nspawned) =>
                   /\ pc'[c] = "exit"
                   /\ outcome'[c] = "spawnfail"
                   /\ UNCHANGED <<proc, proc_memory_mb, workers>>
             /\ (pc[c] = "exit" /\ pc'[c] = "idle" /\ outcome[c] = "spawnfail") =>
                   /\ ~result'.success /\ ~result'.raised
                   /\ result'.kind = "oserror"
                   /\ ~locked'
                   /\ proc' = NoProc /\ proc_memory_mb' = NoMem
             /\ (pc[c] = "check" /\ pc'[c] # "check" /\ proc = NoProc) =>
                   pc'[c] = "spawn"
         ]_vars

\* after a call whose spawn failed, the next call has found no handle and is
\* about to spawn
C35_Witness ==
    /\ hist.outcome = "spawnfail"
    /\ proc = NoProc
    /\ \E c \in Callers : pc[c] = "spawn"

\* the memory ceiling the input asks for: the given value, or the default
RequestedMemory(in) == Get(in.memory_mb, IntV(DefaultMemoryMb)).n

\* the ceiling in force for a requested one
Ceiling(n) == IF n < MemoryLo THEN MemoryLo
              ELSE IF n > MemoryHi THEN MemoryHi ELSE n

C38_JsonAgreesWithResult ==
    fn.op = "shape" =>
        /\ fn.ret.json.ok = fn.ret.success
        /\ fn.ret.json.error = JNull <=> fn.ret.error = JNull

====
